---- MODULE Spec2Model ----
(***************************************************************************)
(* Model of stretch.core.parameters.Parameters: a nested key-value store   *)
(* addressed by slash-delimited paths.                                     *)
(*                                                                         *)
(* Strings are sequences of one-character strings, so that str.split and   *)
(* the substring test of Python's "in" are computed, not assumed.  A       *)
(* Python value is a tagged record; a dict is a function from keys         *)
(* (character sequences) to values.  Nested dicts form a tree: every       *)
(* nested mapping has one parent, as the configuration loader produces.    *)
(***************************************************************************)
EXTENDS Integers, Sequences, FiniteSets, TLC

VARIABLES data, last

vars == <<data, last>>

(***************************************************************************)
(* Bounds of the model.                                                    *)
(***************************************************************************)
\* The largest number of key bindings (over all nesting levels) a write may
\* grow the store to; a write that does not grow the store is always taken.
MaxEntries == 2

(***************************************************************************)
(* Python values.                                                          *)
(***************************************************************************)
None == [t |-> "none"]
PyInt(n) == [t |-> "int", v |-> n]
PyBool(b) == [t |-> "bool", v |-> b]
PyStr(s) == [t |-> "str", v |-> s]
PyList(l) == [t |-> "list", v |-> l]
PyDict(f) == [t |-> "dict", v |-> f]

\* x is None.
IsNone(x) == x.t = "none"

\* The empty dict {}.
EmptyMap == <<>>

\* Outcome of evaluating a Python expression or call: a value, or an
\* exception that propagates.
Ok(x) == [out |-> "ok", val |-> x]
Raise(e) == [out |-> e, val |-> None]

\* "/" in key (line 40, line 63).
HasSlash(key) == \E i \in 1..Len(key) : key[i] = "/"

\* key.split("/"): the maximal runs of characters between separators, empty
\* runs included.
RECURSIVE SplitFrom(_, _, _)
SplitFrom(key, i, cur) ==
    IF i > Len(key) THEN <<cur>>
    ELSE IF key[i] = "/" THEN <<cur>> \o SplitFrom(key, i + 1, <<>>)
    ELSE SplitFrom(key, i + 1, Append(cur, key[i]))

Split(key) == SplitFrom(key, 1, <<>>)

\* Only a dict is taken for a container.
PyInDictOnly(key, d) ==
    IF d.t = "dict"
    THEN IF key \in DOMAIN d.v THEN "True" ELSE "False"
    ELSE "TypeError"

\* Python's  key in d  for a str key: membership for a dict, substring test
\* for a str, element equality for a list, TypeError for a value that is
\* not a container.
PyIn(key, d) ==
    CASE d.t = "dict" -> IF key \in DOMAIN d.v THEN "True" ELSE "False"
      [] d.t = "str" ->
            IF \E i \in 0..(Len(d.v) - Len(key)) :
                  SubSeq(d.v, i + 1, i + Len(key)) = key
            THEN "True" ELSE "False"
      [] d.t = "list" ->
            IF \E i \in 1..Len(d.v) : d.v[i].t = "str" /\ d.v[i].v = key
            THEN "True" ELSE "False"
      [] OTHER -> "TypeError"

\* Python's  d[key]  for a str key: the stored value or KeyError for a dict,
\* TypeError for anything else (str and list indices must be integers, the
\* other values are not subscriptable).
PyIndex(d, key) ==
    IF d.t = "dict"
    THEN IF key \in DOMAIN d.v THEN Ok(d.v[key]) ELSE Raise("KeyError")
    ELSE Raise("TypeError")

\* Python's  d[key] = value  for a str key: binds key in a dict, TypeError
\* for anything else.
PyStore(d, key, value) ==
    IF d.t = "dict"
    THEN Ok(PyDict([k \in DOMAIN d.v \cup {key} |->
                        IF k = key THEN value ELSE d.v[k]]))
    ELSE Raise("TypeError")

\* Python's  len(x).
PyLen(x) ==
    CASE x.t = "dict" -> Ok(Cardinality(DOMAIN x.v))
      [] x.t \in {"str", "list"} -> Ok(Len(x.v))
      [] OTHER -> Raise("TypeError")

(***************************************************************************)
(* Parameters.get                                                          *)
(***************************************************************************)
\* What a call did: how it ended (out: "return" or the exception raised),
\* the value returned, and the warnings it logged.
Returned(x, w) == [out |-> "return", ret |-> x, warned |-> w]
Failed(e) == [out |-> e, ret |-> None, warned |-> <<>>]

\* The warning of lines 44-47: the original key and the default.
Warning(original_key, default) == [key |-> original_key, default |-> default]

\* The default is returned for an absent key even when it is None.
GetFinalNoneProtects(d, key, default) ==
    IF PyIn(key, d) = "TypeError" THEN Failed("TypeError")
    ELSE IF PyIn(key, d) = "False" THEN Returned(default, <<>>)
    ELSE LET r == PyIndex(d, key)
         IN  IF r.out = "ok" THEN Returned(r.val, <<>>) ELSE Failed(r.out)

\* The default is tested for truth, not for  is not None.
GetFinalTruthyDefault(d, key, default) ==
    LET truthy == default \notin {None, PyInt(0), PyBool(FALSE), PyStr(<<>>),
                                  PyList(<<>>), PyDict(EmptyMap)}
    IN  IF truthy /\ PyIn(key, d) = "TypeError" THEN Failed("TypeError")
        ELSE IF truthy /\ PyIn(key, d) = "False" THEN Returned(default, <<>>)
        ELSE LET r == PyIndex(d, key)
             IN  IF r.out = "ok" THEN Returned(r.val, <<>>) ELSE Failed(r.out)

\* A stored None is replaced by the default.
GetFinalNoneIsMissing(d, key, default) ==
    IF ~IsNone(default) /\ PyIn(key, d) = "TypeError" THEN Failed("TypeError")
    ELSE IF ~IsNone(default) /\ PyIn(key, d) = "False" THEN Returned(default, <<>>)
    ELSE LET r == PyIndex(d, key)
         IN  IF r.out # "ok" THEN Failed(r.out)
             ELSE IF IsNone(r.val) THEN Returned(default, <<>>)
             ELSE Returned(r.val, <<>>)

\* Lines 51-53: the guarded default, then the unguarded access.
GetFinal(d, key, default) ==
    IF ~IsNone(default) /\ PyIn(key, d) = "TypeError" THEN Failed("TypeError")
    ELSE IF ~IsNone(default) /\ PyIn(key, d) = "False" THEN Returned(default, <<>>)
    ELSE LET r == PyIndex(d, key)
         IN  IF r.out = "ok" THEN Returned(r.val, <<>>) ELSE Failed(r.out)

\* The warning names the segment under examination instead of the key asked
\* for.
MissingSegmentLogsSegment(key, original_key, default) ==
    [out |-> "return", ret |-> default,
     warned |-> <<[key |-> key, default |-> default]>>]

\* Lines 44-48: an intermediate segment is missing; warn with the original
\* key (key is by now the segment under examination) and return the default.
MissingSegment(key, original_key, default) ==
    Returned(default, <<Warning(original_key, default)>>)

\* Lines 42-50: the loop over keys[:-1], at its i-th iteration with the
\* local  data  bound to d, then the tail of the method.
RECURSIVE GetLoop(_, _, _, _, _)
GetLoop(d, keys, i, original_key, default) ==
    IF i >= Len(keys) THEN GetFinal(d, keys[Len(keys)], default)
    ELSE LET key == keys[i]
             present == PyIn(key, d)
         IN  IF present = "TypeError" THEN Failed("TypeError")
             ELSE IF present = "False"
             THEN MissingSegment(key, original_key, default)
             ELSE LET r == PyIndex(d, key)
                  IN  IF r.out = "ok"
                      THEN GetLoop(r.val, keys, i + 1, original_key, default)
                      ELSE Failed(r.out)

\* Parameters.get(key, default) on the store root.
GetCall(root, key, default) ==
    IF HasSlash(key)
    THEN GetLoop(PyDict(root), Split(key), 1, key, default)
    ELSE GetFinal(PyDict(root), key, default)

(***************************************************************************)
(* Parameters.set                                                          *)
(***************************************************************************)
\* A missing level is created on the way down, as dict.setdefault would.
RECURSIVE SetLoopCreates(_, _, _, _)
SetLoopCreates(d, keys, i, value) ==
    IF i >= Len(keys) THEN PyStore(d, keys[Len(keys)], value)
    ELSE LET r == IF d.t = "dict" /\ keys[i] \notin DOMAIN d.v
                  THEN Ok(PyDict(EmptyMap)) ELSE PyIndex(d, keys[i])
         IN  IF r.out # "ok" THEN r
             ELSE LET s == SetLoopCreates(r.val, keys, i + 1, value)
                  IN  IF s.out # "ok" THEN s ELSE PyStore(d, keys[i], s.val)

\* Lines 65-68: descend through keys[:-1] with no check, then assign.  The
\* assignment mutates the mapping reached in place, so the result is the
\* mapping d with that one nested binding replaced.
RECURSIVE SetLoop(_, _, _, _)
SetLoop(d, keys, i, value) ==
    IF i >= Len(keys) THEN PyStore(d, keys[Len(keys)], value)
    ELSE LET r == PyIndex(d, keys[i])
         IN  IF r.out # "ok" THEN r
             ELSE LET s == SetLoop(r.val, keys, i + 1, value)
                  IN  IF s.out # "ok" THEN s
                      ELSE Ok(PyDict([d.v EXCEPT ![keys[i]] = s.val]))

\* The value is bound under the terminal segment at the root: the descent is
\* lost.
SetCallAtRoot(root, key, value) ==
    PyStore(PyDict(root), Split(key)[Len(Split(key))], value)

\* Parameters.set(key, value) on the store root: the new root, or the
\* exception.
SetCall(root, key, value) ==
    IF HasSlash(key)
    THEN SetLoop(PyDict(root), Split(key), 1, value)
    ELSE PyStore(PyDict(root), key, value)

(***************************************************************************)
(* Indexed access, get_task_goals, guarantee_instance_is_reachable         *)
(***************************************************************************)
\* Parameters.__getitem__(key): self.data[key], no splitting.
GetItemCall(root, key) ==
    LET r == PyIndex(PyDict(root), key)
    IN  IF r.out = "ok" THEN Returned(r.val, <<>>) ELSE Failed(r.out)

\* The indexed write goes through set and splits the key.
SetItemCallSplits(root, key, value) == SetCall(root, key, value)

\* Parameters.__setitem__(key, value): self.data[key] = value, no splitting.
SetItemCall(root, key, value) == PyStore(PyDict(root), key, value)

OBJECT_TO_FIND ==
    <<"o", "b", "j", "e", "c", "t", "_", "t", "o", "_", "f", "i", "n", "d">>
LOCATION_TO_PLACE ==
    <<"l", "o", "c", "a", "t", "i", "o", "n", "_", "t", "o", "_",
      "p", "l", "a", "c", "e">>
GUARANTEE_INSTANCE_IS_REACHABLE ==
    <<"g", "u", "a", "r", "a", "n", "t", "e", "e", "_",
      "i", "n", "s", "t", "a", "n", "c", "e", "_", "i", "s", "_",
      "r", "e", "a", "c", "h", "a", "b", "l", "e">>

\* The empty value is returned as it is stored.
GoalSlotKeepsEmpty(root, key) ==
    IF key \in DOMAIN root
    THEN LET x == GetItemCall(root, key).ret
             n == PyLen(x)
         IN  IF n.out # "ok" THEN Raise(n.out) ELSE Ok(x)
    ELSE Ok(None)

\* One slot of get_task_goals (lines 88-93, 94-99): the stored value, None
\* when the key is absent or the value has length 0; len() of a value that
\* has no length raises.
GoalSlot(root, key) ==
    IF key \in DOMAIN root
    THEN LET x == GetItemCall(root, key).ret
             n == PyLen(x)
         IN  IF n.out # "ok" THEN Raise(n.out)
             ELSE IF n.val = 0 THEN Ok(None) ELSE Ok(x)
    ELSE Ok(None)

\* The tuple a call returns.
PyTuple(x, y) == [t |-> "tuple", v |-> <<x, y>>]

\* Parameters.get_task_goals().
GetTaskGoalsCall(root) ==
    LET o == GoalSlot(root, OBJECT_TO_FIND)
    IN  IF o.out # "ok" THEN Failed(o.out)
        ELSE LET l == GoalSlot(root, LOCATION_TO_PLACE)
             IN  IF l.out # "ok" THEN Failed(l.out)
                 ELSE Returned(PyTuple(o.val, l.val), <<>>)

\* Parameters.guarantee_instance_is_reachable.
GuaranteeCall(root) ==
    IF GUARANTEE_INSTANCE_IS_REACHABLE \in DOMAIN root
    THEN Returned(root[GUARANTEE_INSTANCE_IS_REACHABLE], <<>>)
    ELSE Returned(PyBool(FALSE), <<>>)

(***************************************************************************)
(* The inputs the calls are made with.                                     *)
(***************************************************************************)
KeyA == <<"a">>
KeyB == <<"b">>
KeyAB == <<"a", "/", "b">>
KeyABA == <<"a", "/", "b", "/", "a">>

\* Keys passed to get and set: flat, and hierarchical of depth 2 and 3.
PathKeys == {KeyA, KeyB, KeyAB, KeyABA}

\* Keys used with indexed access: one that contains "/", and the task keys.
ItemKeys == {KeyAB, OBJECT_TO_FIND, LOCATION_TO_PLACE}

\* Values written by set and indexed write.
WriteValues ==
    {None, PyInt(0), PyStr(<<>>), PyDict(EmptyMap)}

\* Defaults passed to get: none, falsy ones and a truthy one.
Defaults ==
    {None, PyInt(0), PyList(<<>>), PyStr(<<"d">>)}

\* The number of key bindings in a value, over all nesting levels.
RECURSIVE Entries(_)
Entries(x) ==
    IF x.t # "dict" THEN 0
    ELSE LET RECURSIVE Sum(_)
             Sum(S) == IF S = {} THEN 0
                       ELSE LET k == CHOOSE k \in S : TRUE
                            IN  1 + Entries(x.v[k]) + Sum(S \ {k})
         IN  Sum(DOMAIN x.v)

\* Stores the configuration loader hands to the constructor (line 26).
InitStores ==
    { EmptyMap,
      (KeyA :> PyDict(KeyB :> PyDict(KeyA :> PyInt(1)))),
      (KeyA :> PyDict(KeyB :> None))
          @@ (OBJECT_TO_FIND :> PyStr(<<"c", "u", "p">>)),
      (KeyA :> PyStr(<<"a", "b">>)) @@ (KeyB :> PyList(<<PyStr(<<"b">>)>>))
          @@ (GUARANTEE_INSTANCE_IS_REACHABLE :> PyBool(TRUE)),
      (KeyA :> PyList(<<>>)) @@ (OBJECT_TO_FIND :> PyList(<<>>))
          @@ (LOCATION_TO_PLACE :> PyInt(3)),
      (OBJECT_TO_FIND :> PyStr(<<>>))
          @@ (LOCATION_TO_PLACE :> PyStr(<<"c", "u", "p">>)) }

(***************************************************************************)
(* The store as a state machine: one action per call.                      *)
(***************************************************************************)
Call(op, key, arg, r) ==
    [op |-> op, key |-> key, arg |-> arg,
     out |-> r.out, ret |-> r.ret, warned |-> r.warned]

Init ==
    /\ data \in InitStores
    /\ last = Call("init", <<>>, None, Returned(None, <<>>))

\* The default is remembered under an absent flat key, as dict.setdefault
\* would.
GetRemembersDefault(key, default) ==
    /\ last' = Call("get", key, default, GetCall(data, key, default))
    /\ data' = IF ~HasSlash(key) /\ key \notin DOMAIN data /\ ~IsNone(default)
               THEN [k \in DOMAIN data \cup {key} |->
                        IF k = key THEN default ELSE data[k]]
               ELSE data

Get(key, default) ==
    /\ last' = Call("get", key, default, GetCall(data, key, default))
    /\ UNCHANGED data

\* A write that raises leaves the store as it was.
Write(op, key, value, r) ==
    /\ r.out = "ok" =>
          \/ Entries(r.val) <= MaxEntries
          \/ Entries(r.val) <= Entries(PyDict(data))
    /\ data' = IF r.out = "ok" THEN r.val.v ELSE data
    /\ last' = Call(op, key, value,
                    IF r.out = "ok" THEN Returned(None, <<>>) ELSE Failed(r.out))

Set(key, value) == Write("set", key, value, SetCall(data, key, value))

GetItem(key) ==
    /\ last' = Call("getitem", key, None, GetItemCall(data, key))
    /\ UNCHANGED data

SetItem(key, value) ==
    Write("setitem", key, value, SetItemCall(data, key, value))

GetTaskGoals ==
    /\ last' = Call("get_task_goals", <<>>, None, GetTaskGoalsCall(data))
    /\ UNCHANGED data

GuaranteeInstanceIsReachable ==
    /\ last' = Call("guarantee_instance_is_reachable", <<>>, None,
                    GuaranteeCall(data))
    /\ UNCHANGED data

Next ==
    \/ \E key \in PathKeys, default \in Defaults : Get(key, default)
    \/ \E key \in PathKeys, value \in WriteValues : Set(key, value)
    \/ \E key \in ItemKeys : GetItem(key)
    \/ \E key \in ItemKeys, value \in WriteValues : SetItem(key, value)
    \/ GetTaskGoals
    \/ GuaranteeInstanceIsReachable

Spec == Init /\ [][Next]_vars

(***************************************************************************)
(* Vocabulary of the properties: what a path denotes in a store, stated    *)
(* without reference to the code of get and set.                           *)
(***************************************************************************)
\* Marks a path that leads nowhere.
Absent == [t |-> "absent"]

IsMapping(x) == x.t = "dict"

\* The value the first i segments lead to from the root through mappings,
\* Absent when a segment is missing or a level is not a mapping.
RECURSIVE Reach(_, _, _)
Reach(root, segs, i) ==
    IF i = 0 THEN PyDict(root)
    ELSE LET up == Reach(root, segs, i - 1)
         IN  IF IsMapping(up) /\ segs[i] \in DOMAIN up.v
             THEN up.v[segs[i]] ELSE Absent

\* Segment i is looked up in a mapping that does not hold it.
MissingAt(root, segs, i) ==
    /\ IsMapping(Reach(root, segs, i - 1))
    /\ segs[i] \notin DOMAIN Reach(root, segs, i - 1).v

\* Some intermediate segment of key is absent from the mapping reached.
MissingIntermediate(root, key) ==
    LET segs == Split(key)
    IN  \E i \in 1..(Len(segs) - 1) : MissingAt(root, segs, i)

\* Every intermediate segment of key leads to a mapping (vacuous for a flat
\* key: the root is a mapping).
IntermediatesResolve(root, key) ==
    LET segs == Split(key)
    IN  \A i \in 0..(Len(segs) - 1) : IsMapping(Reach(root, segs, i))

\* The intermediates resolve and the terminal segment is absent.
TerminalAbsent(root, key) ==
    /\ IntermediatesResolve(root, key)
    /\ MissingAt(root, Split(key), Len(Split(key)))

\* The key resolves to a stored value.
Resolves(root, key) ==
    /\ IntermediatesResolve(root, key)
    /\ ~MissingAt(root, Split(key), Len(Split(key)))

\* The value stored under key.
Stored(root, key) == Reach(root, Split(key), Len(Split(key)))

\* Some intermediate segment of key leads to a value that is not a mapping;
\* NonMappingIndex is the number of segments that lead to it.
ReachesNonMapping(root, key) ==
    LET segs == Split(key)
    IN  \E i \in 1..(Len(segs) - 1) :
            Reach(root, segs, i).t \notin {"absent", "dict"}

NonMappingIndex(root, key) ==
    LET segs == Split(key)
    IN  CHOOSE i \in 1..(Len(segs) - 1) :
            Reach(root, segs, i).t \notin {"absent", "dict"}

(***************************************************************************)
(* C1                                                                      *)
(***************************************************************************)
\* C1: a hierarchical get with an intermediate segment absent from the
\* mapping reached so far does not fail: it returns the caller's default
\* (None when none was given) and logs exactly one warning, which carries
\* the original full key.
C1_MissingIntermediateReturnsDefault ==
    (last.op = "get" /\ MissingIntermediate(data, last.key)) =>
        /\ last.out = "return"
        /\ last.ret = last.arg
        /\ Len(last.warned) = 1
        /\ last.warned[1].key = last.key
        /\ last.warned[1].default = last.arg

\* A get of "a/b/a" with no default where "a" is a mapping without "b".
C1_Witness ==
    /\ last.op = "get" /\ last.key = KeyABA /\ IsNone(last.arg)
    /\ KeyA \in DOMAIN data /\ IsMapping(data[KeyA])
    /\ MissingAt(data, Split(KeyABA), 2)
    /\ last.out = "return" /\ IsNone(last.ret) /\ Len(last.warned) = 1

C3_AbsentKeyReturnsDefault ==
    (last.op = "get" /\ ~IsNone(last.arg) /\ TerminalAbsent(data, last.key)) =>
        /\ last.out = "return"
        /\ last.ret = last.arg

\* A get of the flat key "b", absent, with the falsy default 0.
C3_Witness ==
    /\ last.op = "get" /\ last.key = KeyB /\ last.arg = PyInt(0)
    /\ KeyB \notin DOMAIN data
    /\ last.out = "return" /\ last.ret = PyInt(0)

(***************************************************************************)
(* C4                                                                      *)
(***************************************************************************)
\* C4: a get of a key that resolves to a stored value returns that value,
\* whatever the default and even when the value is None or falsy, for a flat
\* key and for a hierarchical key whose intermediates are mappings.
C4_PresentKeyReturnsStored ==
    (last.op = "get" /\ Resolves(data, last.key)) =>
        /\ last.out = "return"
        /\ last.ret = Stored(data, last.key)
        /\ last.warned = <<>>

\* A get of "a/b", stored as None, with a default that is not None.
C4_Witness ==
    /\ last.op = "get" /\ last.key = KeyAB /\ ~IsNone(last.arg)
    /\ Resolves(data, KeyAB) /\ IsNone(Stored(data, KeyAB))
    /\ last.out = "return" /\ IsNone(last.ret)

(***************************************************************************)
(* C5                                                                      *)
(***************************************************************************)
\* C5: set(path, v) succeeds whenever the intermediate segments of path are
\* mappings, whether or not the terminal segment was there, and a get(path)
\* that follows it returns v whatever default it is given.
C5_SetThenGet ==
    [][ /\ (last'.op = "set" /\ IntermediatesResolve(data, last'.key)) =>
              last'.out = "return"
        /\ (/\ last.op = "set" /\ last.out = "return"
            /\ last'.op = "get" /\ last'.key = last.key) =>
              (last'.out = "return" /\ last'.ret = last.arg) ]_vars

\* A get of "a/b/a" returns 0: the stores are built with 1 there, so a set
\* of that path wrote the 0.
C5_Witness ==
    /\ last.op = "get" /\ last.key = KeyABA /\ ~IsNone(last.arg)
    /\ last.out = "return" /\ last.ret = PyInt(0)
    /\ Stored(data, KeyABA) = PyInt(0)

(***************************************************************************)
(* C6                                                                      *)
(***************************************************************************)
\* C6: a set on a hierarchical path fails with KeyError when an intermediate
\* segment is absent from the mapping reached and with TypeError when an
\* intermediate segment leads to a value that is not a mapping; it creates
\* no mapping and leaves the store as it was.
C6_SetMissingIntermediateFails ==
    [][ /\ (last'.op = "set" /\ MissingIntermediate(data, last'.key)) =>
              (last'.out = "KeyError" /\ data' = data)
        /\ (last'.op = "set" /\ ReachesNonMapping(data, last'.key)) =>
              (last'.out = "TypeError" /\ data' = data) ]_vars

\* A set of "a/b/a" where "a" is a mapping without "b" has raised KeyError.
C6_Witness ==
    /\ last.op = "set" /\ last.key = KeyABA
    /\ KeyA \in DOMAIN data /\ IsMapping(data[KeyA])
    /\ MissingAt(data, Split(KeyABA), 2)
    /\ last.out = "KeyError"

(***************************************************************************)
(* C7                                                                      *)
(***************************************************************************)
\* C7: an indexed write store[k] = v binds the one top-level key k to v, with
\* no splitting of k and every other top-level binding (nested mappings
\* included) as it was; an indexed read of k that follows returns v; an
\* indexed read of a key absent at the top level fails with KeyError.
C7_IndexedRoundTrip ==
    [][ /\ last'.op = "setitem" =>
              /\ last'.out = "return"
              /\ DOMAIN data' = DOMAIN data \cup {last'.key}
              /\ data'[last'.key] = last'.arg
              /\ \A k \in DOMAIN data \ {last'.key} : data'[k] = data[k]
        /\ (last.op = "setitem" /\ last'.op = "getitem" /\ last'.key = last.key) =>
              (last'.out = "return" /\ last'.ret = last.arg)
        /\ (last'.op = "getitem" /\ last'.key \notin DOMAIN data) =>
              last'.out = "KeyError" ]_vars

\* An indexed read of "a/b" returns the value written under the top-level
\* key "a/b" while the mapping under "a" holds no "b".
C7_Witness ==
    /\ last.op = "getitem" /\ last.key = KeyAB
    /\ last.out = "return" /\ last.ret = PyInt(0)
    /\ KeyAB \in DOMAIN data /\ data[KeyAB] = PyInt(0)
    /\ KeyA \in DOMAIN data /\ IsMapping(data[KeyA])
    /\ KeyB \notin DOMAIN data[KeyA].v

(***************************************************************************)
(* C8                                                                      *)
(***************************************************************************)
\* A value of length 0: the empty string, sequence or mapping.
IsEmptyValue(x) ==
    \/ x.t \in {"str", "list"} /\ Len(x.v) = 0
    \/ x.t = "dict" /\ DOMAIN x.v = {}

\* The slot the claim describes: None for a missing key or an empty value,
\* the stored value otherwise.
SlotValue(root, key) ==
    IF key \notin DOMAIN root THEN None
    ELSE IF IsEmptyValue(root[key]) THEN None
    ELSE root[key]

\* The key holds a value len() does not accept: None, a number, a boolean.
SlotUnsized(root, key) ==
    key \in DOMAIN root /\ root[key].t \notin {"str", "list", "dict"}

\* C8 as stated: get_task_goals() returns (object_to_find,
\* location_to_place), each slot None when its key is missing or holds an
\* empty value and the stored value otherwise, whatever the other slot
\* holds, and the store is not modified.
C8_AsStated ==
    [][ last'.op = "get_task_goals" =>
          /\ data' = data
          /\ last'.out = "return"
          /\ last'.ret = PyTuple(SlotValue(data, OBJECT_TO_FIND),
                                 SlotValue(data, LOCATION_TO_PLACE)) ]_vars

\* C8 amended: the pair is returned as stated when every slot that is
\* present holds a value that has a length (string, sequence, mapping); when
\* a present slot holds None, a number or a boolean the call fails with
\* TypeError and returns no pair.  The store is not modified either way.
C8_TaskGoals ==
    [][ last'.op = "get_task_goals" =>
          /\ data' = data
          /\ IF \/ SlotUnsized(data, OBJECT_TO_FIND)
                \/ SlotUnsized(data, LOCATION_TO_PLACE)
             THEN last'.out = "TypeError"
             ELSE /\ last'.out = "return"
                  /\ last'.ret = PyTuple(SlotValue(data, OBJECT_TO_FIND),
                                         SlotValue(data, LOCATION_TO_PLACE)) ]_vars

\* get_task_goals() on a store with object_to_find: "" and a non-empty
\* location_to_place has returned (None, that location).
C8_Witness ==
    /\ last.op = "get_task_goals" /\ last.out = "return"
    /\ OBJECT_TO_FIND \in DOMAIN data /\ data[OBJECT_TO_FIND] = PyStr(<<>>)
    /\ LOCATION_TO_PLACE \in DOMAIN data
    /\ ~IsEmptyValue(data[LOCATION_TO_PLACE])
    /\ last.ret = PyTuple(None, data[LOCATION_TO_PLACE])

(***************************************************************************)
(* C9                                                                      *)
(***************************************************************************)
\* The segment occurs in a string (as a substring) or in a sequence (as an
\* element).
Occurs(seg, x) ==
    \/ /\ x.t = "str"
       /\ \E j \in 0..(Len(x.v) - Len(seg)) :
              \A m \in 1..Len(seg) : x.v[j + m] = seg[m]
    \/ /\ x.t = "list"
       /\ \E j \in 1..Len(x.v) : x.v[j].t = "str" /\ x.v[j].v = seg

\* C9 as stated: when the traversal of get or set reaches a level that is
\* not a mapping, the call fails; get returns neither the default nor a
\* value.
C9_AsStated ==
    [][ (last'.op \in {"get", "set"} /\ ReachesNonMapping(data, last'.key)) =>
            last'.out # "return" ]_vars

\* C9 amended: at a level that is not a mapping set always fails with
\* TypeError and leaves the store as it was, and get never returns a stored
\* value.  get fails with TypeError when the level is None, a number or a
\* boolean, when it is a string or sequence in which the next segment
\* occurs, or when the next segment is the terminal one and the default is
\* None; otherwise (a string or sequence in which the next segment does not
\* occur) get returns the default, with the missing-segment warning when
\* that segment is an intermediate one.
C9_NonMappingLevel ==
    [][ /\ (last'.op = "set" /\ ReachesNonMapping(data, last'.key)) =>
              (last'.out = "TypeError" /\ data' = data)
        /\ (last'.op = "get" /\ ReachesNonMapping(data, last'.key)) =>
              LET segs == Split(last'.key)
                  i == NonMappingIndex(data, last'.key)
                  x == Reach(data, segs, i)
              IN  IF x.t \notin {"str", "list"} \/ Occurs(segs[i + 1], x)
                  THEN last'.out = "TypeError"
                  ELSE IF i + 1 < Len(segs)
                  THEN /\ last'.out = "return" /\ last'.ret = last'.arg
                       /\ Len(last'.warned) = 1
                       /\ last'.warned[1].key = last'.key
                  ELSE IF IsNone(last'.arg)
                  THEN last'.out = "TypeError"
                  ELSE /\ last'.out = "return" /\ last'.ret = last'.arg
                       /\ last'.warned = <<>> ]_vars

\* A get of "a/b/a" where "a" holds a string or sequence has returned the
\* default.
C9_Witness ==
    /\ last.op = "get" /\ last.key = KeyABA
    /\ ReachesNonMapping(data, KeyABA)
    /\ last.out = "return" /\ last.ret = last.arg /\ Len(last.warned) = 1

(***************************************************************************)
(* C10                                                                     *)
(***************************************************************************)
\* Paths to probe the store with: a first segment among the top-level keys
\* of either store or "a", "b", then up to two segments among "a", "b".
ProbePaths(before, after) ==
    LET tops == DOMAIN before \cup DOMAIN after \cup {KeyA, KeyB}
        subs == {KeyA, KeyB}
    IN  {<<x>> : x \in tops}
            \cup {<<x, y>> : x \in tops, y \in subs}
            \cup {<<x, y, z>> : x \in tops, y \in subs, z \in subs}

\* The value a path of segments resolves to.
ResolvesTo(root, p) == Reach(root, p, Len(p))

\* The mappings along segs keep their keys, the last one gaining at most the
\* terminal segment, and the path resolves to value.
OneBinding(before, after, segs, value) ==
    /\ \A i \in 0..(Len(segs) - 1) :
          LET old == Reach(before, segs, i)
              new == Reach(after, segs, i)
          IN  /\ IsMapping(old) /\ IsMapping(new)
              /\ DOMAIN new.v =
                    DOMAIN old.v
                      \cup (IF i = Len(segs) - 1 THEN {segs[Len(segs)]} ELSE {})
    /\ ResolvesTo(after, segs) = value

\* In every mapping along segs each key other than the next segment is bound
\* to what it was bound to: a path that leaves segs, at any depth, resolves
\* as before.
SiblingsKept(before, after, segs) ==
    \A i \in 0..(Len(segs) - 1) :
        LET old == Reach(before, segs, i)
            new == Reach(after, segs, i)
        IN  \A k \in DOMAIN old.v \ {segs[i + 1]} :
                k \in DOMAIN new.v /\ new.v[k] = old.v[k]

\* The segments a successful write addresses: set splits, indexed write does
\* not.
Target(call) == IF call.op = "set" THEN Split(call.key) ELSE <<call.key>>

\* What every call leaves alone: the store changes only by a successful set
\* or indexed write, and then in one binding of one mapping.
FrameOfCalls ==
    /\ data' # data => (last'.op \in {"set", "setitem"} /\ last'.out = "return")
    /\ (last'.op = "set" /\ MissingIntermediate(data, last'.key)) => data' = data
    /\ (last'.op \in {"set", "setitem"} /\ last'.out = "return") =>
          OneBinding(data, data', Target(last'), last'.arg)

\* C10 as stated: the frame of the calls, and after a successful set(path, v)
\* every other path resolves to the same value as before.
C10_AsStated ==
    [][ /\ FrameOfCalls
        /\ (last'.op = "set" /\ last'.out = "return") =>
              \A p \in ProbePaths(data, data') :
                  p # Split(last'.key) =>
                      ResolvesTo(data', p) = ResolvesTo(data, p) ]_vars

\* C10 amended: the frame of the calls, and after a successful set(path, v)
\* (or indexed write) every other path that neither extends path nor is a
\* prefix of it resolves to the same value as before.
C10_Frame ==
    [][ /\ FrameOfCalls
        /\ (last'.op \in {"set", "setitem"} /\ last'.out = "return") =>
              SiblingsKept(data, data', Target(last')) ]_vars

\* A set of "a/b" has succeeded in a store that also holds "b" and
\* object_to_find, and a mapping under "a".
C10_Witness ==
    /\ last.op = "set" /\ last.key = KeyAB /\ last.out = "return"
    /\ Stored(data, KeyAB) = last.arg
    /\ OBJECT_TO_FIND \in DOMAIN data

====
